---- MODULE Spec2Model ----
(***************************************************************************)
(* Camera session lifecycle of the CapturePhoto widget                     *)
(* (src/components/feature/CapturePhoto/CapturePhoto.tsx).                 *)
(*                                                                         *)
(* One action is one run-to-suspension of an event handler or of the       *)
(* continuation of an async function: the code between two awaits runs     *)
(* without interleaving on the single UI thread, and React commits the     *)
(* batched state updates before the next task.  Handlers started by a      *)
(* click read the state of the latest render; a continuation after an      *)
(* await reads the values its closure captured, which are kept in the      *)
(* record of the in-flight call.                                           *)
(***************************************************************************)
EXTENDS Integers, Sequences, FiniteSets, Bags, TLC

\* Bounds of the model
MaxStreams == 2     \* stream handles the platform hands out in one run
MaxInflight == 2    \* startCamera calls suspended at the same time
MaxTimers == 1      \* pending playback-retry timers

NoStream == 0       \* globalStream === undefined, video.srcObject === null

PermissionStates == {"granted", "denied", "prompt"}
ErrorNames == {"NotAllowedError", "NotFoundError", "NotReadableError",
               "OverconstrainedError", "Error"}

\* capturedImage === null, <img> without src
NoImage == [src |-> "", mirrored |-> FALSE]

VARIABLES
    mounted,        \* the component is mounted
    supported,      \* navigator.mediaDevices.getUserMedia exists
    globalStream,   \* module-level slot: index into streams, or NoStream
    streams,        \* every MediaStream handed out: are its tracks unstopped
    isOpen, capturedImage, error, permission, isLoading, facingMode,
    isCameraReady,  \* React state of the component
    readyCalledRef, \* readyCalledRef.current
    video,          \* the mounted <video>: srcObject, the facing mode that
                    \* stream was asked with, listeners armed, and (history)
                    \* the false->true flips of isCameraReady under srcObject
    inflight,       \* bag of the suspended startCamera calls
    timers,         \* pending setTimeout playback retries
    imageSrc,       \* imageRef.current.src of the host page
    last            \* history: the handler that ran last, with its inputs

vars == <<mounted, supported, globalStream, streams, isOpen, capturedImage,
          error, permission, isLoading, facingMode, isCameraReady,
          readyCalledRef, video, inflight, timers, imageSrc, last>>

\* the program's own state (video.flips and last are history)
progVars == <<mounted, supported, globalStream, streams, isOpen, capturedImage,
              error, permission, isLoading, facingMode, isCameraReady,
              readyCalledRef, video, inflight, timers, imageSrc>>

----------------------------------------------------------------------------
\* Pure helpers

Other(fm) == IF fm = "user" THEN "environment" ELSE "user"

\* a <video> element as React creates it: no stream, no listeners
FreshVideo == [srcObject |-> NoStream, mode |-> "user", armed |-> FALSE, flips |-> 0]

Alive == {i \in DOMAIN streams : streams[i]}

\* stopExistingCameraStreams that only forgets the handle
StopTracks_OnlyClearSlot(g, ss) == ss

\* globalStream.getTracks().forEach(track => track.stop())
StopTracks(g, ss) ==
    [i \in DOMAIN ss |-> IF i = g THEN FALSE ELSE ss[i]]

\* the suspended calls without t, and with one more t
Without(b, t) == b (-) SetToBag({t})
With(b, t) == b (+) SetToBag({t})

Op(name) == [op |-> name, arg |-> ""]

\* the view that renders preview before looking at the error
ViewOf_PreviewFirst(m, o, e, c) ==
    IF ~m \/ ~o THEN "closed"
    ELSE IF c # NoImage THEN "preview"
    ELSE IF e # "" THEN "error"
    ELSE "live"

\* which branch of renderCameraView is on screen
ViewOf(m, o, e, c) ==
    IF ~m \/ ~o THEN "closed"
    ELSE IF e # "" THEN "error"
    ELSE IF c # NoImage THEN "preview"
    ELSE "live"

View == ViewOf(mounted, isOpen, error, capturedImage)

\* videoRef.current (and canvasRef.current) is non-null
VideoMounted == View = "live"

\* The <video> after the commit of this step: the same element while the live
\* branch stays rendered, a new one whenever the branch is (re)mounted.
VideoAfter(v) == IF VideoMounted /\ VideoMounted' THEN v ELSE FreshVideo

\* the classification with the NotFoundError branch dropped
ErrorMessage_NoNotFound(name) ==
    IF name = "NotAllowedError"
    THEN "Camera access denied. Please allow camera permission and try again."
    ELSE IF name = "NotReadableError"
    THEN "Camera is already in use by another application."
    ELSE IF name = "OverconstrainedError"
    THEN "Camera constraints cannot be satisfied."
    ELSE "Failed to access camera. Please try again."

\* lines 142-153: the message of the first branch the error name matches
ErrorMessage(name) ==
    IF name = "NotAllowedError"
    THEN "Camera access denied. Please allow camera permission and try again."
    ELSE IF name = "NotFoundError" THEN "No camera found on this device."
    ELSE IF name = "NotReadableError"
    THEN "Camera is already in use by another application."
    ELSE IF name = "OverconstrainedError"
    THEN "Camera constraints cannot be satisfied."
    ELSE "Failed to access camera. Please try again."

PermissionAfterError(name, p) == IF name = "NotAllowedError" THEN "denied" ELSE p

----------------------------------------------------------------------------
Init ==
    /\ mounted = TRUE
    /\ supported \in BOOLEAN
    /\ globalStream = NoStream
    /\ streams = <<>>
    /\ isOpen = FALSE
    /\ capturedImage = NoImage
    /\ error = ""
    /\ permission = "prompt"
    /\ isLoading = FALSE
    /\ facingMode = "user"
    /\ isCameraReady = FALSE
    /\ readyCalledRef = FALSE
    /\ video = FreshVideo
    /\ inflight = EmptyBag
    /\ timers = 0
    /\ imageSrc = NoImage
    /\ last = Op("init")

----------------------------------------------------------------------------
\* Building blocks shared by several handlers

\* a state setter called from a continuation: React drops it after unmount
Set(new, old) == IF mounted THEN new ELSE old

\* handleOpen without the permission test of line 169
OpenRequests_Always(p) == TRUE

\* line 169: the permission values under which handleOpen asks for the camera
OpenRequests(p) == p = "granted" \/ p = "prompt"

\* informCameraReady without the early return of line 77
ReadyLatched_Never(rc) == FALSE

\* line 77: informCameraReady returns at once when the latch is set
ReadyLatched(rc) == rc

\* capturePhoto without the isCameraReady test of line 210
CaptureBlocked_NoReadyTest(vm, ready) == ~vm

\* line 210: capturePhoto returns at once
CaptureBlocked(vm, ready) == ~vm \/ ~ready

\* switchCamera that keeps the new mode when the switch fails
SwitchFallbackMode_KeepNew(old, new) == new

\* line 203: the mode switchCamera goes back to when the new one fails
SwitchFallbackMode(old, new) == old

\* confirmPhoto that hands over a frame with the flip undone
ConfirmSrc_Unflipped(c) == [c EXCEPT !.mirrored = ~@]

\* line 259: what confirmPhoto writes into imageRef.current.src
ConfirmSrc(c) == c

\* retakePhoto that does not discard the frame
RetakeImage_Keep(c) == c

\* line 265: what retakePhoto leaves in capturedImage
RetakeImage(c) == NoImage

\* line 247: the data URL of the frame drawn from the video: the picture of
\* the camera its stream was asked from, flipped when facingMode is the front
\* camera (lines 238-244)
Encode(v, fm) == [src |-> v.mode, mirrored |-> (fm = "user")]

StartedCall(kind, fm, old) == [kind |-> kind, mode |-> fm, old |-> old, stage |-> "gum"]

\* requestCameraAccess up to its first suspension.  fm is the facingMode of the
\* closure that runs it, pending the calls still suspended.  Without
\* getUserMedia startCamera throws before it touches the slot, and the catch
\* block runs in the same turn.
RequestCameraAccess(fm, pending) ==
    /\ isCameraReady' = Set(FALSE, isCameraReady)
    /\ IF supported
       THEN /\ isLoading' = Set(TRUE, isLoading)
            /\ error' = Set("", error)
            /\ streams' = StopTracks(globalStream, streams)
            /\ globalStream' = NoStream
            /\ inflight' = With(pending, StartedCall("request", fm, fm))
       ELSE /\ isLoading' = Set(FALSE, isLoading)
            /\ error' = Set(ErrorMessage("Error"), error)
            /\ inflight' = pending
            /\ UNCHANGED <<streams, globalStream>>

\* room for one more suspended call (bound of the model)
Room == supported => BagCardinality(inflight) < MaxInflight

----------------------------------------------------------------------------
\* Handlers

\* click on the trigger: handleOpen
HandleTriggerClick ==
    /\ mounted
    /\ OpenRequests(permission) => Room
    /\ isOpen' = TRUE
    /\ capturedImage' = NoImage
    /\ IF OpenRequests(permission)
       THEN RequestCameraAccess(facingMode, inflight)
       ELSE /\ error' = ""
            /\ UNCHANGED <<isLoading, isCameraReady, streams, globalStream, inflight>>
    /\ UNCHANGED <<mounted, supported, permission, facingMode, readyCalledRef,
                   timers, imageSrc>>
    /\ video' = VideoAfter(video)
    /\ last' = Op("open")

\* handleClose, with stopCamera and stopExistingCameraStreams
HandleClose ==
    /\ isOpen' = FALSE
    /\ streams' = StopTracks(globalStream, streams)
    /\ globalStream' = NoStream
    /\ isCameraReady' = FALSE
    /\ readyCalledRef' = FALSE
    /\ capturedImage' = NoImage
    /\ error' = ""
    /\ isLoading' = FALSE
    /\ video' = FreshVideo

\* click on the close button of the modal
HandleCloseClick ==
    /\ mounted /\ isOpen
    /\ HandleClose
    /\ UNCHANGED <<mounted, supported, permission, facingMode, inflight, timers,
                   imageSrc>>
    /\ last' = Op("close")

\* a retry that looks at the permission as handleOpen does
RetryRequests_Gated(p) == p = "granted" \/ p = "prompt"

\* lines 276-278: handleRetryClick asks for the camera under any permission
RetryRequests(p) == TRUE

\* click on "Try Again" in the error view
HandleRetryClick ==
    /\ View = "error"
    /\ RetryRequests(permission) => Room
    /\ IF RetryRequests(permission)
       THEN RequestCameraAccess(facingMode, inflight)
       ELSE UNCHANGED <<isCameraReady, isLoading, error, streams, globalStream,
                        inflight>>
    /\ UNCHANGED <<mounted, supported, isOpen, capturedImage, permission,
                   facingMode, readyCalledRef, timers, imageSrc>>
    /\ video' = VideoAfter(video)
    /\ last' = Op("retry")

\* click on the switch button (disabled until the camera is ready).  A stream
\* in the slot implies getUserMedia exists, so startCamera gets to its await.
HandleSwitchCameraClick ==
    /\ View = "live" /\ isCameraReady
    /\ globalStream # NoStream => BagCardinality(inflight) < MaxInflight
    /\ facingMode' = Other(facingMode)
    /\ IF globalStream # NoStream
       THEN /\ isLoading' = TRUE
            /\ isCameraReady' = FALSE
            /\ streams' = StopTracks(globalStream, streams)
            /\ globalStream' = NoStream
            /\ inflight' = With(inflight,
                              StartedCall("switch", Other(facingMode), facingMode))
       ELSE UNCHANGED <<isLoading, isCameraReady, streams, globalStream, inflight>>
    /\ UNCHANGED <<mounted, supported, isOpen, capturedImage, error, permission,
                   readyCalledRef, video, timers, imageSrc>>
    /\ last' = Op("switch")

\* capturePhoto.  ctx: canvas.getContext('2d') is non-null; dims: the video
\* reports a non-zero intrinsic size; enc: toDataURL gives a real image.
CapturePhoto(ctx, dims, enc) ==
    IF CaptureBlocked(VideoMounted, isCameraReady)
    THEN UNCHANGED <<error, capturedImage>>
    ELSE IF ~ctx
    THEN error' = "Canvas context not supported" /\ UNCHANGED capturedImage
    ELSE IF ~dims
    THEN /\ error' = "Video not ready. Please wait a moment and try again."
         /\ UNCHANGED capturedImage
    ELSE IF enc
    THEN capturedImage' = Encode(video, facingMode) /\ UNCHANGED error
    ELSE /\ error' = "Failed to capture photo. Please try again."
         /\ UNCHANGED capturedImage

\* the platform's condition at a capture, by the first check it would fail
CaptureInput(ctx, dims, enc) ==
    IF ~ctx THEN "noContext" ELSE IF ~dims THEN "zeroSize"
    ELSE IF ~enc THEN "emptyEncoding" ELSE "ok"

\* the capture button's handler; a video without a stream has no frame size
HandleCaptureClick ==
    /\ View = "live"
    /\ \E ctx \in BOOLEAN, dims \in BOOLEAN, enc \in BOOLEAN :
          /\ dims => video.srcObject # NoStream
          /\ CapturePhoto(ctx, dims, enc)
          /\ last' = [op |-> "capture", arg |-> CaptureInput(ctx, dims, enc)]
    /\ UNCHANGED <<mounted, supported, globalStream, streams, isOpen, permission,
                   isLoading, facingMode, isCameraReady, readyCalledRef, inflight,
                   timers, imageSrc>>
    /\ video' = VideoAfter(video)

\* retakePhoto
HandleRetakeClick ==
    /\ View = "preview"
    /\ capturedImage' = RetakeImage(capturedImage)
    /\ UNCHANGED <<mounted, supported, globalStream, streams, isOpen, error,
                   permission, isLoading, facingMode, isCameraReady,
                   readyCalledRef, inflight, timers, imageSrc>>
    /\ video' = VideoAfter(video)
    /\ last' = Op("retake")

\* confirmPhoto: the host page always has its <img> mounted behind imageRef
HandleConfirmClick ==
    /\ View = "preview"
    /\ imageSrc' = ConfirmSrc(capturedImage)
    /\ HandleClose
    /\ UNCHANGED <<mounted, supported, permission, facingMode, inflight, timers>>
    /\ last' = Op("confirm")

\* informCameraReady, run by a 'playing' or 'canplay' event of the video.  The
\* events are queued tasks: one queued before the tracks were stopped is still
\* delivered to the element afterwards.
InformCameraReady ==
    IF ReadyLatched(readyCalledRef)
    THEN UNCHANGED <<readyCalledRef, isCameraReady, isLoading, video>>
    ELSE /\ readyCalledRef' = TRUE
         /\ isCameraReady' = TRUE
         /\ isLoading' = FALSE
         /\ video' = [video EXCEPT !.flips = @ + (IF isCameraReady THEN 0 ELSE 1)]

VideoSignal ==
    /\ VideoMounted /\ video.armed /\ video.srcObject # NoStream
    /\ InformCameraReady
    /\ UNCHANGED <<mounted, supported, globalStream, streams, isOpen,
                   capturedImage, error, permission, facingMode, inflight,
                   timers, imageSrc>>
    /\ last' = Op("signal")

----------------------------------------------------------------------------
\* Continuations of the suspended calls

\* what follows the return of startCamera in its caller
PermissionAfterStart(t) ==
    IF t.kind = "request" THEN Set("granted", permission) ELSE permission

\* getUserMedia resolves for the suspended call t
GumResolve(t) ==
    LET id == Len(streams) + 1
    IN  /\ t.stage = "gum"
        /\ Len(streams) < MaxStreams
        /\ streams' = Append(streams, TRUE)
        /\ globalStream' = id
        /\ IF VideoMounted
           THEN /\ readyCalledRef' = FALSE
                /\ isCameraReady' = FALSE
                /\ video' = [srcObject |-> id, mode |-> t.mode, armed |-> TRUE,
                              flips |-> 0]
                /\ inflight' = With(Without(inflight, t), [t EXCEPT !.stage = "play"])
                /\ UNCHANGED permission
           ELSE /\ inflight' = Without(inflight, t)
                /\ permission' = PermissionAfterStart(t)
                /\ UNCHANGED <<readyCalledRef, isCameraReady, video>>
        /\ UNCHANGED <<mounted, supported, isOpen, capturedImage, error, isLoading,
                       facingMode, timers, imageSrc>>
        /\ last' = Op("gumResolve")

\* video.play() resolves: startCamera returns
PlayResolve(t) ==
        /\ t.stage = "play"
        /\ inflight' = Without(inflight, t)
        /\ permission' = PermissionAfterStart(t)
        /\ UNCHANGED <<mounted, supported, globalStream, streams, isOpen,
                       capturedImage, error, isLoading, facingMode, isCameraReady,
                       readyCalledRef, video, timers, imageSrc>>
        /\ last' = Op("playResolve")

\* a play() failure that escapes startCamera and lands in the catch block of
\* requestCameraAccess
PlayFailureError_Surfaced(e) == ErrorMessage("Error")

\* lines 112-120: the catch around play() swallows the failure, error stays
PlayFailureError(e) == e

\* video.play() rejects: one retry is scheduled and startCamera returns
PlayReject(t) ==
        /\ t.stage = "play"
        /\ timers < MaxTimers
        /\ timers' = timers + 1
        /\ inflight' = Without(inflight, t)
        /\ permission' = PermissionAfterStart(t)
        /\ error' = Set(PlayFailureError(error), error)
        /\ UNCHANGED <<mounted, supported, globalStream, streams, isOpen,
                       capturedImage, isLoading, facingMode, isCameraReady,
                       readyCalledRef, imageSrc>>
        /\ video' = VideoAfter(video)
        /\ last' = Op("playReject")

\* the retry timer fires: play() again, a failure is only logged
PlayRetry ==
    /\ timers > 0
    /\ timers' = timers - 1
    /\ UNCHANGED <<mounted, supported, globalStream, streams, isOpen,
                   capturedImage, error, permission, isLoading, facingMode,
                   isCameraReady, readyCalledRef, video, inflight, imageSrc>>
    /\ last' = Op("playRetry")

\* getUserMedia rejects with an error called name, in requestCameraAccess:
\* the catch block of lines 138-155
RequestFailed(t, name) ==
        /\ t.stage = "gum" /\ t.kind = "request"
        /\ error' = Set(ErrorMessage(name), error)
        /\ permission' = Set(PermissionAfterError(name, permission), permission)
        /\ isLoading' = Set(FALSE, isLoading)
        /\ inflight' = Without(inflight, t)
        /\ UNCHANGED <<mounted, supported, globalStream, streams, isOpen,
                       capturedImage, facingMode, isCameraReady, readyCalledRef,
                       timers, imageSrc>>
        /\ video' = VideoAfter(video)
        /\ last' = [op |-> "requestFailed", arg |-> name]

\* getUserMedia rejects in switchCamera: the catch block of lines 198-205.  The
\* message set on line 201 is overwritten by requestCameraAccess in the same
\* batch; requestCameraAccess is the one of the render switchCamera was
\* started from, so it asks for that render's facingMode.
SwitchFailed(t) ==
    LET back == SwitchFallbackMode(t.old, t.mode)
    IN  /\ t.stage = "gum" /\ t.kind = "switch"
        /\ facingMode' = Set(back, facingMode)
        /\ RequestCameraAccess(t.old, Without(inflight, t))
        /\ UNCHANGED <<mounted, supported, isOpen, capturedImage, permission,
                       readyCalledRef, timers, imageSrc>>
        /\ video' = VideoAfter(video)
        /\ last' = [op |-> "switchFailed", arg |-> t.old]

\* the cleanup of the effect of lines 55-59.  React discards the state and
\* the refs of the component, here put back to their initial values; the
\* module-level slot, the suspended calls and the timers live on.
Unmount ==
    /\ mounted
    /\ mounted' = FALSE
    /\ streams' = StopTracks(globalStream, streams)
    /\ globalStream' = NoStream
    /\ video' = FreshVideo
    /\ isOpen' = FALSE /\ capturedImage' = NoImage /\ error' = ""
    /\ permission' = "prompt" /\ isLoading' = FALSE /\ facingMode' = "user"
    /\ isCameraReady' = FALSE /\ readyCalledRef' = FALSE
    /\ UNCHANGED <<supported, inflight, timers, imageSrc>>
    /\ last' = Op("unmount")

\* checkCameraPermission: the query's answer, or a later onchange
PermissionUpdate(p) ==
    /\ mounted
    /\ p # permission
    /\ permission' = p
    /\ UNCHANGED <<mounted, supported, globalStream, streams, isOpen,
                   capturedImage, error, isLoading, facingMode, isCameraReady,
                   readyCalledRef, video, inflight, timers, imageSrc>>
    /\ last' = Op("permission")

----------------------------------------------------------------------------
Next ==
    \/ HandleTriggerClick
    \/ HandleCloseClick
    \/ HandleRetryClick
    \/ HandleSwitchCameraClick
    \/ HandleCaptureClick
    \/ HandleRetakeClick
    \/ HandleConfirmClick
    \/ VideoSignal
    \/ \E t \in BagToSet(inflight) : GumResolve(t)
    \/ \E t \in BagToSet(inflight) : PlayResolve(t)
    \/ \E t \in BagToSet(inflight) : PlayReject(t)
    \/ PlayRetry
    \/ \E t \in BagToSet(inflight), name \in ErrorNames : RequestFailed(t, name)
    \/ \E t \in BagToSet(inflight) : SwitchFailed(t)
    \/ Unmount
    \/ \E p \in PermissionStates : PermissionUpdate(p)

Spec == Init /\ [][Next]_vars

----------------------------------------------------------------------------
\* Claims

\* C1: in every reachable state at most one camera stream handle has
\* unstopped tracks.
C1_AtMostOneAliveStream == Cardinality(Alive) <= 1

\* C2: immediately after handleClose (close click or confirm) or after the
\* unmount cleanup, no stream handle has unstopped tracks and the global slot
\* is empty.
C2_NoneAliveAfterClose ==
    [][last'.op \in {"close", "confirm", "unmount"}
         => Alive' = {} /\ globalStream' = NoStream]_vars

\* C3: once the modal is closed (or the widget unmounted) and no acquisition
\* and no retry timer is pending any more, the handle an acquisition left in
\* the global slot has been released.
C3_ClosedSlotReleased ==
    (View = "closed" /\ inflight = EmptyBag /\ timers = 0)
        => (globalStream = NoStream \/ ~streams[globalStream])

\* C4: under one stream handle bound to the video, isCameraReady goes from
\* false to true at most once, and a 'playing' or 'canplay' signal for a
\* handle that has already made that step changes nothing of the program state.
C4_ReadyOncePerHandle ==
    /\ [](video.flips <= 1)
    /\ [][(last'.op = "signal" /\ video.flips >= 1) => UNCHANGED progVars]_vars

\* a signal came in for a handle whose flag had been latched and then reset
C4_Witness ==
    /\ last.op = "signal"
    /\ video.flips = 1
    /\ ~isCameraReady
    /\ readyCalledRef

\* C5: a capturePhoto call made while isCameraReady is false, or while the
\* video reports a 0x0 size, or while the 2d context is unavailable, stores no
\* frame and changes nothing but the error message (with the error branch on
\* screen the <video> element itself is gone, the stream handle is not).
C5_RejectedCaptureChangesOnlyError ==
    [][(/\ last'.op = "capture"
        /\ (~isCameraReady \/ last'.arg \in {"noContext", "zeroSize"}))
         => /\ capturedImage' = capturedImage
            /\ capturedImage' = NoImage
            /\ UNCHANGED <<mounted, supported, globalStream, streams, isOpen,
                           permission, isLoading, facingMode, isCameraReady,
                           readyCalledRef, inflight, timers, imageSrc>>]_vars

C5_Witness ==
    /\ last.op = "capture"
    /\ last.arg = "zeroSize"
    /\ error = "Video not ready. Please wait a moment and try again."
    /\ isCameraReady
    /\ globalStream \in Alive

\* C6: confirming in the preview view with captured frame F makes the external
\* image's src exactly F and leaves the widget closed: modal closed, frame and
\* error cleared, not ready, the global slot empty and its handle stopped.
C6_ConfirmWritesFrameAndCloses ==
    [][last'.op = "confirm"
         => /\ capturedImage # NoImage
            /\ imageSrc' = capturedImage
            /\ ~isOpen' /\ View' = "closed"
            /\ capturedImage' = NoImage
            /\ error' = "" /\ ~isCameraReady' /\ ~isLoading'
            /\ globalStream' = NoStream
            /\ (globalStream # NoStream => ~streams'[globalStream])]_vars

C6_Witness ==
    /\ last.op = "confirm"
    /\ imageSrc # NoImage
    /\ imageSrc.mirrored
    /\ ~isOpen
    /\ Alive = {}

\* C7: retake from the preview view sets the captured frame to none and makes
\* the live view the rendered one, starting no acquisition and leaving the
\* global stream handle alone.
C7_RetakeBackToLive ==
    [][last'.op = "retake"
         => /\ View = "preview"
            /\ capturedImage' = NoImage
            /\ View' = "live"
            /\ inflight' = inflight
            /\ globalStream' = globalStream /\ streams' = streams]_vars

C7_Witness ==
    /\ last.op = "retake"
    /\ View = "live"
    /\ globalStream \in Alive

\* C8: when the acquisition switchCamera started after toggling facingMode
\* from m fails, facingMode ends equal to m (while the component is mounted)
\* and the fallback acquisition is requested with facingMode m.
C8_FailedSwitchReverts ==
    /\ [](\A t \in BagToSet(inflight) : t.kind = "switch" => t.mode = Other(t.old))
    /\ [][last'.op = "switchFailed"
            => /\ (mounted => facingMode' = last'.arg)
               /\ \E t \in BagToSet(inflight) :
                     /\ t = StartedCall("switch", Other(last'.arg), last'.arg)
                     /\ inflight' = With(Without(inflight, t),
                                         StartedCall("request", last'.arg, last'.arg))]_vars

C8_Witness ==
    /\ last.op = "switchFailed"
    /\ mounted
    /\ facingMode = last.arg
    /\ facingMode = "environment"
    /\ BagIn(StartedCall("request", "environment", "environment"), inflight)

\* C9 as written: handleOpen always opens the modal, clears the captured frame
\* and the error, and starts an acquisition under the current facingMode
\* exactly when permission is not 'denied'.
C9_OpenAsWritten ==
    [][last'.op = "open"
         => /\ isOpen' /\ capturedImage' = NoImage /\ error' = ""
            /\ (inflight' = With(inflight, StartedCall("request", facingMode, facingMode))
                  <=> permission # "denied")
            /\ (inflight' # inflight <=> permission # "denied")]_vars

\* C9 amended: handleOpen always opens the modal and clears the captured
\* frame; where getUserMedia exists it also leaves the error empty and starts
\* an acquisition under the current facingMode exactly when permission is not
\* 'denied'; where it does not exist no acquisition starts, and with a
\* permission other than 'denied' open ends on the generic failure message.
C9_OpenAmended ==
    [][last'.op = "open"
         => /\ isOpen' /\ capturedImage' = NoImage
            /\ supported =>
                 /\ error' = ""
                 /\ (inflight' = With(inflight, StartedCall("request", facingMode, facingMode))
                       <=> permission # "denied")
                 /\ (inflight' # inflight <=> permission # "denied")
            /\ ~supported =>
                 /\ inflight' = inflight
                 /\ error' = (IF permission # "denied"
                              THEN "Failed to access camera. Please try again."
                              ELSE "")]_vars

C9_Witness ==
    /\ last.op = "open"
    /\ isOpen
    /\ facingMode = "environment"
    /\ inflight = SetToBag({StartedCall("request", "environment", "environment")})

\* the message each error name is meant to give
C10_Message(name) ==
    CASE name = "NotAllowedError" ->
             "Camera access denied. Please allow camera permission and try again."
      [] name = "NotFoundError" -> "No camera found on this device."
      [] name = "NotReadableError" -> "Camera is already in use by another application."
      [] name = "OverconstrainedError" -> "Camera constraints cannot be satisfied."
      [] OTHER -> "Failed to access camera. Please try again."

C10_Handled ==
    /\ ~isLoading'
    /\ error' = C10_Message(last'.arg)
    /\ permission' = (IF last'.arg = "NotAllowedError" THEN "denied" ELSE permission)

C11_OneViewByPriority ==
    (mounted /\ isOpen) =>
        /\ View \in {"error", "preview", "live"}
        /\ error # "" => View = "error"
        /\ (error = "" /\ capturedImage # NoImage) => View = "preview"
        /\ (error = "" /\ capturedImage = NoImage) => View = "live"
        /\ View # "live" => video = FreshVideo

\* an acquisition failed while a captured frame was held
C11_Witness ==
    /\ mounted /\ isOpen
    /\ last.op = "requestFailed"
    /\ capturedImage # NoImage
    /\ View = "error"

\* C12: from handleClose until the next handleOpen the modal is closed,
\* isCameraReady is false, the captured frame is none and the error message
\* is empty, whatever an acquisition pending at close time does afterwards.
C12_ClosedStaysClean ==
    (mounted /\ ~isOpen) =>
        /\ ~isCameraReady
        /\ capturedImage = NoImage
        /\ error = ""

\* C13: after a capture-time failure (camera not ready, video of size 0x0, no
\* 2d context, empty encoding) no frame is stored and the rendered view is
\* still the live view.
C13_FailedCaptureKeepsLiveView ==
    [][(/\ last'.op = "capture"
        /\ (~isCameraReady \/ last'.arg # "ok"))
         => /\ capturedImage' = NoImage
            /\ View' = "live"]_vars

\* C14: a failure of the first play() of an acquisition schedules exactly one
\* retry; neither that failure nor the failure of the retry sets the error or
\* the loading flag, and the acquisition still completes as a success: its
\* call returns and requestCameraAccess sets permission to 'granted'.  The
\* retry only consumes its timer and schedules nothing.
C14_PlayFailureSwallowed ==
    [][/\ last'.op = "playReject"
           => /\ timers' = timers + 1
              /\ error' = error /\ isLoading' = isLoading /\ View' = View
              /\ \E t \in BagToSet(inflight) :
                    /\ t.stage = "play"
                    /\ inflight' = Without(inflight, t)
                    /\ permission' = (IF t.kind = "request" /\ mounted
                                      THEN "granted" ELSE permission)
       /\ last'.op = "playRetry"
           => /\ timers' = timers - 1
              /\ UNCHANGED <<error, isLoading, permission, inflight, globalStream,
                             streams, isCameraReady, isOpen, capturedImage>>]_vars

C14_Witness ==
    /\ last.op = "playRetry"
    /\ timers = 0
    /\ error = ""
    /\ permission = "granted"
    /\ View = "live"
    /\ globalStream \in Alive

\* C15 as written: retry in the error view clears the error message and
\* starts a new acquisition under the current facingMode whatever the
\* permission is.
C15_RetryAsWritten ==
    [][last'.op = "retry"
         => /\ View = "error"
            /\ error' = ""
            /\ inflight' = With(inflight, StartedCall("request", facingMode, facingMode))]_vars

\* C15 amended: where getUserMedia exists, retry in the error view clears the
\* error message and starts a new acquisition under the current facingMode
\* whatever the permission is, and the first readiness signal of a stream
\* bound to the video leaves the widget in the live view with isCameraReady
\* true and the loading flag off; where getUserMedia is missing retry starts
\* nothing and ends on the generic failure message again.
C15_RetryAmended ==
    [][/\ last'.op = "retry"
           => /\ View = "error"
              /\ supported =>
                   /\ error' = ""
                   /\ inflight' = With(inflight,
                                       StartedCall("request", facingMode, facingMode))
              /\ ~supported =>
                   /\ error' = "Failed to access camera. Please try again."
                   /\ inflight' = inflight
       /\ (last'.op = "signal" /\ video.flips = 0)
           => /\ View' = "live"
              /\ isCameraReady' /\ ~isLoading'
              /\ video'.flips = 1]_vars

\* after a retry under a denied permission the camera came up
C15_Witness ==
    /\ last.op = "signal"
    /\ View = "live"
    /\ isCameraReady
    /\ video.flips = 1
    /\ globalStream \in Alive
    /\ video.srcObject = globalStream
    /\ permission = "denied"

\* C16: facingMode is changed by nothing but switchCamera, so the value it has
\* when the modal is closed is the value the next open asks the camera with:
\* while the modal stays closed facingMode does not change.
C16_FacingKeptWhileClosed ==
    [][(mounted' /\ ~isOpen /\ ~isOpen') => facingMode' = facingMode]_vars

\* C17: whenever startCamera issues a stream request, the handle that was in
\* the global slot has had its tracks stopped and the slot is empty.
C17_ReleaseBeforeRequest ==
    [][(/\ last'.op \in {"open", "retry", "switch", "switchFailed"}
        /\ inflight' # inflight)
         => /\ globalStream' = NoStream
            /\ globalStream # NoStream => ~streams'[globalStream]]_vars

\* a request issued while the slot held a live handle
C17_Witness ==
    /\ last.op \in {"open", "switch"}
    /\ inflight # EmptyBag
    /\ globalStream = NoStream
    /\ video.srcObject # NoStream
    /\ ~streams[video.srcObject]

\* C18: whenever the modal is open, the permission is 'denied', no acquisition
\* is in flight and no stream is bound or held, the rendered view is the
\* error view with its retry action, never the loading overlay.
C18_DeniedShowsError ==
    (/\ mounted /\ isOpen
     /\ permission = "denied"
     /\ inflight = EmptyBag /\ timers = 0
     /\ globalStream = NoStream
     /\ video.srcObject = NoStream)
        => View = "error"

\* C19: after capture followed by retake, a live view with isCameraReady true
\* has its video element bound to the handle in the global slot, and that
\* handle is alive.
C19_ReadyVideoBoundAfterRetake ==
    (/\ last.op = "retake"
     /\ View = "live"
     /\ isCameraReady)
        => /\ globalStream \in Alive
           /\ video.srcObject = globalStream

\* C20: whenever capture is enabled on a video bound to a live stream, the
\* facingMode that decides the horizontal flip is the mode that stream was
\* requested with.
C20_FlipMatchesBoundStream ==
    (/\ View = "live"
     /\ isCameraReady
     /\ video.srcObject \in Alive)
        => facingMode = video.mode

====
